---- MODULE Spec2Model ----
(***************************************************************************)
(* Model of the chat extraction pipeline of server.py: the schema          *)
(* extractors (iter_bubbles_from_disk_kv, iter_chat_from_item_table,       *)
(* iter_composer_data), workspace_info, and extract_chats, which merges    *)
(* what they yield into sessions, drops empty sessions and sorts.          *)
(*                                                                         *)
(* A generator is modelled by the sequence of tuples it yields together    *)
(* with a flag telling whether it ended by raising an exception that the   *)
(* generator itself does not catch.  JSON values are modelled by tokens:   *)
(* a text is a TLA+ string, and Missing, Null and Num stand for an absent  *)
(* key, a JSON null / SQL NULL and a JSON number.                          *)
(***************************************************************************)
EXTENDS Integers, Sequences, FiniteSets, TLC

(***************************************************************************)
(* Bounds of the model.                                                    *)
(***************************************************************************)
\* workspace databases scanned in one run
MaxWs == 2
\* rows (list items of the JSON documents, table rows) over all databases
MaxItems == 2
\* the most segments of a path given to extract_project_name_from_path
MaxDepth == 4

(***************************************************************************)
(* JSON values.                                                            *)
(***************************************************************************)
Missing == "<missing>"
Null    == "<null>"
Num     == "<number>"
\* Python None used as a dictionary key
NoneKey == "<None>"
\* Python None in a numeric field (createdAt, lastUpdatedAt, type)
NoneNum == -1

\* dict.get(key): None when the key is absent
Get(v) == IF v = Missing THEN Null ELSE v
\* dict.get(key, default)
GetDefault(v, default) == IF v = Missing THEN default ELSE v
\* Python truth value of a text-like value
Truthy(v) == v \notin {Missing, Null, ""}
\* isinstance(v, str)
IsStr(v) == v \notin {Missing, Null, Num}
\* str.strip() on the texts of the model: " " is the only blank text
Strip(s) == IF s = " " THEN "" ELSE s
\* a or b
Or(a, b) == IF Truthy(a) THEN a ELSE b

SeqUpTo(S, n) == UNION {[1..k -> S] : k \in 0..(IF n < 0 THEN 0 ELSE n)}
\* the element of a set of one element; a value computed once and then used
\* several times is written as the element of its singleton
The(S) == CHOOSE x \in S : TRUE

(***************************************************************************)
(* Generator results.                                                      *)
(***************************************************************************)
Ok(ys)    == [yields |-> ys, raised |-> FALSE]
Raise(ys) == [yields |-> ys, raised |-> TRUE]
\* the generator goes on with r2 unless r1 ended by raising
Then(r1, r2) ==
    IF r1.raised THEN r1
    ELSE [yields |-> r1.yields \o r2.yields, raised |-> r2.raised]

Yield(cid, role, text, db_path) ==
    [cid |-> cid, role |-> role, text |-> text, db_path |-> db_path]

(***************************************************************************)
(* The databases of the model.  A workspace database holds the list        *)
(* allComposers of composer.composerData, the list tabs of                 *)
(* workbench.panel.aichat.view.aichat.chatdata and the rows of             *)
(* aiService.prompts% and aiService.generations%; the global database      *)
(* holds the bubbleId:% and composerData:% rows of cursorDiskKV and the    *)
(* tabs of its ItemTable.                                                  *)
(***************************************************************************)
SessionIds == {"c1", "c2"}
Timestamps == {NoneNum, 0, 1, 2}
\* an integer too large for a float, as 10**400: created_at / 1000 raises
\* OverflowError
Huge == 1000000000
\* a lastUpdatedAt that is a JSON string, as "2024-01-01"
TextStamp == -3

FlatMessages ==
    { [role |-> Missing,     content |-> "again"],
      [role |-> "assistant", content |-> Num] }

Composer(c, name, t, m) ==
    [composerId |-> c, name |-> name, createdAt |-> t, lastUpdatedAt |-> t,
     messages |-> m]

\* the elements of allComposers
ComposerEntries ==
    {Composer("c1", "Demo", t, <<[role |-> "user", content |-> "hi"]>>) :
        t \in Timestamps}
    \cup {Composer("c2", "Demo", t, <<[role |-> "user", content |-> "hi"]>>) :
            t \in {NoneNum, 1}}
    \cup {Composer("c1", "Demo", NoneNum, <<>>)}
    \* a createdAt too large for a float
    \cup {Composer("c2", "Demo", Huge, <<[role |-> "user", content |-> "hi"]>>)}
    \cup {Composer("c1", Missing, NoneNum, <<m>>) : m \in FlatMessages}
    \cup {Composer(Missing, "Demo", NoneNum, <<[role |-> "user", content |-> "hi"]>>)}
    \* a lastUpdatedAt that is no number
    \cup {[composerId |-> "c2", name |-> "Demo", createdAt |-> NoneNum,
            lastUpdatedAt |-> TextStamp,
            messages |-> <<[role |-> "user", content |-> "hi"]>>]}

TabBubbles ==
    { [type |-> "user",  text |-> "tab hi", content |-> Missing],
      [type |-> "ai",    text |-> "tab yo", content |-> Missing],
      [type |-> Missing, text |-> "tab hi", content |-> Missing],
      [type |-> "user",  text |-> Num,      content |-> Missing],
      [type |-> "user",  text |-> Missing,  content |-> "tab alt"] }

\* the elements of tabs
ChatTabs ==
    {[shape |-> "dict", tabId |-> "c1", bubbles |-> b] : b \in SeqUpTo(TabBubbles, 1)}
    \cup {[shape |-> "dict", tabId |-> c, bubbles |-> <<b>>] :
            c \in {"c2", Missing},
            b \in {[type |-> "user", text |-> "tab hi", content |-> Missing]}}
    \* a list element that is no JSON object
    \cup {[shape |-> "other", tabId |-> Missing, bubbles |-> <<>>]}

\* a row of ItemTable: its value is NULL, no JSON, a JSON object or a list
PromptRows ==
    {[json |-> "list", items |-> <<[text |-> t]>>] : t \in {"prompt", " ", Num}}
    \cup {[json |-> k, items |-> <<>>] : k \in {"null", "object"}}

GenerationRows ==
    {[json |-> "list", items |-> <<[textDescription |-> "gen"]>>]}
    \cup {[json |-> k, items |-> <<>>] : k \in {"null", "invalid"}}

Bubble(c, k, ty, tx, rich) ==
    [cid |-> c, json |-> k, type |-> ty, text |-> tx, richText |-> rich]

\* a row of cursorDiskKV with key bubbleId:<cid>:<bubble id>
BubbleRows ==
    { Bubble("c1", "dict", 1, "hello again", Missing),
      Bubble("c1", "dict", 2, "hello yo", Missing),
      Bubble("c2", "dict", 1, "hello again", Missing),
      Bubble("c1", "dict", NoneNum, Missing, "rich"),
      Bubble("c1", "dict", 1, Num, Missing) }
    \cup {Bubble("c1", k, NoneNum, Missing, Missing) : k \in {"invalid", "list"}}

ConversationMessages ==
    { [type |-> 2, text |-> "conv yo"],
      [type |-> 1, text |-> Num] }

ComposerData(c, k, t, m) ==
    [cid |-> c, json |-> k, createdAt |-> t, conversation |-> m]

\* a row of cursorDiskKV with key composerData:<cid>
ComposerDataRows ==
    {ComposerData("c1", "dict", t, <<[type |-> 1, text |-> "conv hi"]>>) :
        t \in {0, 2}}
    \cup {ComposerData("c2", "dict", 2, <<[type |-> 1, text |-> "conv hi"]>>),
          ComposerData("c1", "dict", NoneNum, <<>>)}
    \cup {ComposerData("c1", "dict", 1, <<m>>) : m \in ConversationMessages}
    \cup {ComposerData("c1", k, NoneNum, <<>>) : k \in {"null", "list"}}

WsPath(i) == "User/workspaceStorage/ws" \o ToString(i) \o "/state.vscdb"
WsId(i)   == "ws" \o ToString(i)

\* history.entries: the resource of the editor of each entry
HistoryEntries ==
    { [shape |-> "dict",
       resource |-> <<"file:///", "Users", "/", "u", "/", "proj", "/", "a.py">>],
      [shape |-> "dict", resource |-> <<"file:///", "Users", "/", "u", "/", "b.py">>],
      \* a file in a directory named as the placeholder
      [shape |-> "dict",
       resource |-> <<"file:///", "Users", "/", "u", "/", "(unknown)", "/", "a.py">>],
      \* an entry that is no JSON object
      [shape |-> "other", resource |-> <<>>] }

\* debug.selectedroot, <<>> when the key is absent
SelectedRoots == { <<>>, <<"file:///", "Users", "/", "u", "/", "sel", "/">> }

\* scm:view:visibleRepositories: its list "all", <<>> when the key is absent
GitRepos ==
    { <<>>,
      << <<"git:Git:file:///", "Users", "/", "u">> >>,
      << <<"https://", "host", "/", "mirror">>,
         <<"git:Git:file:///", "Users", "/", "u", "/", "repo">>,
         <<"git:Git:file:///", "Users", "/", "u">> >> }

Items(db) ==
    Len(db.composers) + Len(db.tabs) + Len(db.prompts) + Len(db.generations)
    + Len(db.history) + (IF db.selectedroot = <<>> THEN 0 ELSE 1)
    + (IF db.repos = <<>> THEN 0 ELSE 1) + (IF db.status = "ok" THEN 0 ELSE 1)
    + Len(db.bubbles)

\* the rows of cursorDiskKV of a workspace database, and the rows
\* aiService.prompts of the ItemTable of the global database
WsBubbleRows     == {<<>>, <<Bubble("c1", "dict", 1, "hello again", Missing)>>}
GlobalPromptRows == {<<>>, <<[json |-> "list", items |-> <<[text |-> "prompt"]>>]>>}

\* the values of a key that may be absent (<<>>), while rows are left
IfLeft(S, left) == IF left > 0 THEN S ELSE {<<>>}

\* a workspace database on which every query raises sqlite3.DatabaseError:
\* the file is no database, or it has no ItemTable
UnreadableWsDb(p) ==
    [path |-> p, status |-> "unreadable", composers |-> <<>>, tabs |-> <<>>,
     prompts |-> <<>>, generations |-> <<>>, history |-> <<>>,
     selectedroot |-> <<>>, repos |-> <<>>, bubbles |-> <<>>]

\* the workspace databases at path p with at least one and at most n of the
\* rows that are read (a database with none of them yields nothing and
\* records only the "(unknown)" project of its workspace)
WsDbs(p, n) ==
    {db \in UNION { UNION { UNION { UNION { UNION {
        {[path |-> p, status |-> "ok", composers |-> c, tabs |-> t, prompts |-> pr,
          generations |-> g, history |-> h, selectedroot |-> sr, repos |-> r,
          bubbles |-> b] :
            b \in IfLeft(WsBubbleRows, n - Len(c) - Len(t) - Len(pr) - Len(g) - Len(h)),
            sr \in IfLeft(SelectedRoots,
                          n - Len(c) - Len(t) - Len(pr) - Len(g) - Len(h)),
            r \in IfLeft(GitRepos, n - Len(c) - Len(t) - Len(pr) - Len(g) - Len(h))}
        : h \in SeqUpTo(HistoryEntries, n - Len(c) - Len(t) - Len(pr) - Len(g)) }
        : g \in SeqUpTo(GenerationRows, n - Len(c) - Len(t) - Len(pr)) }
        : pr \in SeqUpTo(PromptRows, n - Len(c) - Len(t)) }
        : t \in SeqUpTo(ChatTabs, n - Len(c)) }
        : c \in SeqUpTo(ComposerEntries, n) } \cup {UnreadableWsDb(p)} :
     Items(db) \in 1..n}

GlobalPath == "User/globalStorage/state.vscdb"

GItems(db) ==
    Len(db.bubbles) + Len(db.composerData) + Len(db.tabs) + Len(db.prompts)
    + (IF db.status = "ok" THEN 0 ELSE 1)

\* how a global database can fail: "unreadable", every query raises
\* sqlite3.DatabaseError (the file is no database); "malformed", the query on
\* cursorDiskKV succeeds and reading its rows raises sqlite3.DatabaseError (a
\* damaged page); "no_kv" and "no_item", the table cursorDiskKV, respectively
\* ItemTable, does not exist
GlobalFailures == {"unreadable", "malformed", "no_kv", "no_item"}

\* the global databases with at most n rows
GlobalDbs(n) ==
    {db \in UNION { UNION {
        {[path |-> p, status |-> "ok", bubbles |-> b, composerData |-> c, tabs |-> t,
          prompts |-> pr] :
            p \in {GlobalPath}, t \in SeqUpTo(ChatTabs, n - Len(b) - Len(c)),
            pr \in IfLeft(GlobalPromptRows, n - Len(b) - Len(c))}
        : c \in SeqUpTo(ComposerDataRows, n - Len(b)) }
        : b \in SeqUpTo(BubbleRows, n) }
      \cup {[path |-> GlobalPath, status |-> f, bubbles |-> <<>>,
              composerData |-> <<>>, tabs |-> <<>>, prompts |-> <<>>] :
                f \in GlobalFailures} :
     GItems(db) <= n}

(***************************************************************************)
(* iter_bubbles_from_disk_kv                                               *)
(***************************************************************************)
RECURSIVE BubbleRowsLoop(_, _)
BubbleRowsLoop(rows, db_path_str) ==
    IF rows = <<>> THEN Ok(<<>>)
    ELSE LET b    == Head(rows)
             rest == BubbleRowsLoop(Tail(rows), db_path_str)
             txt0 == Or(Get(b.text), Or(Get(b.richText), ""))
             txt  == Strip(txt0)
             role == IF b.type = 1 THEN "user" ELSE "assistant"
         IN  IF b.json \in {"null", "invalid"} THEN rest
             \* b.get on a value that is no dict, .strip() on a text that is no str
             ELSE IF b.json # "dict" \/ ~IsStr(txt0) THEN Raise(<<>>)
             ELSE IF txt = "" THEN rest
             ELSE Then(Ok(<<Yield(b.cid, role, txt, db_path_str)>>), rest)

\* no table cursorDiskKV, or sqlite3.DatabaseError on the query: return;
\* cur.fetchall() is outside the try, so its sqlite3.DatabaseError leaves
\* the generator
iter_bubbles_from_disk_kv(db) ==
    IF db.status \in {"no_kv", "unreadable"} THEN Ok(<<>>)
    ELSE IF db.status = "malformed" THEN Raise(<<>>)
    ELSE BubbleRowsLoop(db.bubbles, db.path)

(***************************************************************************)
(* iter_chat_from_item_table                                               *)
(***************************************************************************)
RECURSIVE TabBubblesLoop(_, _, _)
TabBubblesLoop(bubbles, tab_id, db) ==
    IF bubbles = <<>> THEN <<>>
    ELSE LET bubble      == Head(bubbles)
             rest        == TabBubblesLoop(Tail(bubbles), tab_id, db)
             bubble_type == Get(bubble.type)
             text        == IF bubble.text # Missing THEN bubble.text
                            ELSE IF bubble.content # Missing THEN bubble.content
                            ELSE ""
             role        == IF bubble_type = "user" THEN "user" ELSE "assistant"
         IN  IF ~Truthy(bubble_type) THEN rest
             ELSE IF Truthy(text) /\ IsStr(text)
                  THEN <<Yield(tab_id, role, text, db)>> \o rest
             ELSE rest

RECURSIVE TabsLoop(_, _)
TabsLoop(tabs, db) ==
    IF tabs = <<>> THEN Ok(<<>>)
    ELSE LET tab == Head(tabs)
         IN  IF tab.shape # "dict" THEN Raise(<<>>)
             ELSE Then(Ok(TabBubblesLoop(tab.bubbles,
                                         GetDefault(tab.tabId, "unknown"), db)),
                       TabsLoop(Tail(tabs), db))

RECURSIVE FlatMessagesLoop(_, _, _)
FlatMessagesLoop(messages, comp_id, db) ==
    IF messages = <<>> THEN <<>>
    ELSE LET msg     == Head(messages)
             rest    == FlatMessagesLoop(Tail(messages), comp_id, db)
             role    == GetDefault(msg.role, "unknown")
             content == GetDefault(msg.content, "")
         IN  IF Truthy(content) THEN <<Yield(comp_id, role, content, db)>> \o rest
             ELSE rest

RECURSIVE ComposersLoop(_, _)
ComposersLoop(comps, db) ==
    IF comps = <<>> THEN <<>>
    ELSE LET comp == Head(comps)
         IN  FlatMessagesLoop(comp.messages,
                              GetDefault(comp.composerId, "unknown"), db)
             \o ComposersLoop(Tail(comps), db)

\* hashlib.md5(str(db).encode()).hexdigest()[:8]: a function of the path only,
\* md5 being the first eight digits of the digest of each path of a
\* workspace database
VARIABLE md5

WsPaths == {WsPath(i) : i \in 1..(MaxWs + 1)}

\* digests that differ from path to path
Md5Distinct == [p \in WsPaths |-> "md5(" \o p \o ")"]

md5_8(db) == md5[db]
ai_service_composer_id(db) == "aiService-" \o md5_8(db)

RECURSIVE PromptItemsLoop(_, _, _)
PromptItemsLoop(data, cid, db) ==
    IF data = <<>> THEN Ok(<<>>)
    ELSE LET item == Head(data)
             rest == PromptItemsLoop(Tail(data), cid, db)
             text == Strip(item.text)
         IN  IF item.text = Missing \/ ~Truthy(item.text) THEN rest
             \* .strip() on a text that is no str
             ELSE IF ~IsStr(item.text) THEN Raise(<<>>)
             ELSE IF text = "" THEN rest
             ELSE Then(Ok(<<Yield(cid, "user", text, db)>>), rest)

RECURSIVE PromptsLoop(_, _, _)
PromptsLoop(rows, cid, db) ==
    IF rows = <<>> THEN Ok(<<>>)
    ELSE LET row  == Head(rows)
             rest == PromptsLoop(Tail(rows), cid, db)
         IN  \* json.loads(None) raises TypeError, which no handler here catches
             IF row.json = "null" THEN Raise(<<>>)
             ELSE IF row.json = "invalid" THEN rest
             ELSE IF row.json # "list" THEN rest
             ELSE Then(PromptItemsLoop(row.items, cid, db), rest)

\* GenerationItemsLoop taking textDescription for the assistant's response
RECURSIVE GenerationItemsLoop_Assistant(_, _, _)
GenerationItemsLoop_Assistant(data, cid, db) ==
    IF data = <<>> THEN Ok(<<>>)
    ELSE LET item == Head(data)
             rest == GenerationItemsLoop_Assistant(Tail(data), cid, db)
             text == Strip(item.textDescription)
         IN  IF item.textDescription = Missing \/ ~Truthy(item.textDescription)
             THEN rest
             ELSE IF ~IsStr(item.textDescription) THEN Raise(<<>>)
             ELSE IF text = "" THEN rest
             ELSE Then(Ok(<<Yield(cid, "assistant", text, db)>>), rest)

RECURSIVE GenerationItemsLoop(_, _, _)
GenerationItemsLoop(data, cid, db) ==
    IF data = <<>> THEN Ok(<<>>)
    ELSE LET item == Head(data)
             rest == GenerationItemsLoop(Tail(data), cid, db)
             text == Strip(item.textDescription)
         IN  IF item.textDescription = Missing \/ ~Truthy(item.textDescription)
             THEN rest
             ELSE IF ~IsStr(item.textDescription) THEN Raise(<<>>)
             ELSE IF text = "" THEN rest
             ELSE Then(Ok(<<Yield(cid, "user", text, db)>>), rest)

RECURSIVE GenerationsLoop(_, _, _)
GenerationsLoop(rows, cid, db) ==
    IF rows = <<>> THEN Ok(<<>>)
    ELSE LET row  == Head(rows)
             rest == GenerationsLoop(Tail(rows), cid, db)
         IN  IF row.json = "null" THEN Raise(<<>>)
             ELSE IF row.json = "invalid" THEN rest
             ELSE IF row.json # "list" THEN rest
             ELSE Then(GenerationItemsLoop(row.items, cid, db), rest)

\* sqlite3.DatabaseError is caught by the outer handler: nothing is yielded
iter_chat_from_item_table(db) ==
    IF db.status # "ok" THEN Ok(<<>>) ELSE
    Then(TabsLoop(db.tabs, db.path),
    Then(Ok(ComposersLoop(db.composers, db.path)),
    Then(PromptsLoop(db.prompts, ai_service_composer_id(db.path), db.path),
         GenerationsLoop(db.generations, ai_service_composer_id(db.path), db.path))))

(***************************************************************************)
(* iter_composer_data: every failure on a row is caught and the row        *)
(* skipped; the document is yielded as parsed, whatever its JSON type.     *)
(***************************************************************************)
RECURSIVE ComposerDataLoop(_, _)
ComposerDataLoop(rows, db_path_str) ==
    IF rows = <<>> THEN <<>>
    ELSE LET v    == Head(rows)
             rest == ComposerDataLoop(Tail(rows), db_path_str)
         IN  IF v.json \in {"null", "invalid"} THEN rest
             ELSE <<[cid |-> v.cid, data |-> v, db_path |-> db_path_str]>> \o rest

iter_composer_data(db) ==
    IF db.status # "ok" THEN Ok(<<>>)
    ELSE Ok(ComposerDataLoop(db.composerData, db.path))

(***************************************************************************)
(* Paths.  A path or URI is the sequence of its separators "/" and of the  *)
(* names between them, each name one element; a URI starts with its        *)
(* scheme, "file:///" for a file.  os.path.commonprefix compares character *)
(* by character, but workspace_info keeps only what precedes the last "/"  *)
(* of the common prefix, which is the same for both ways of comparing.     *)
(***************************************************************************)
\* os.path.basename(os.path.expanduser('~'))
current_username == "u"

Min(S) == CHOOSE x \in S : \A y \in S : x <= y
Max(S) == CHOOSE x \in S : \A y \in S : x >= y

\* [p for p in root_path.split('/') if p]
PathParts(path) == SelectSeq(path, LAMBDA p : p # "/")

home_dir_patterns  == {"Users", "home"}
known_projects     ==
    {"genaisf", "cursor-view", "cursor", "cursor-apps", "universal-github", "inquiry"}
project_containers ==
    {"Documents", "Projects", "Code", "workspace", "repos", "git", "src", "codebase"}
system_dirs        == {"Library", "Applications", "System", "var", "opt", "tmp"}

\* list.index(x), counted from 1
IndexOf(parts, x) == Min({k \in 1..Len(parts) : parts[k] = x})

\* The steps of extract_project_name_from_path.  "" stands for None, and
\* positions are counted from 1, so that U is username_index + 1.

\* the deepest part after the user directory that is a known project
KnownProjectName(path_parts, U) ==
    LET known == {k \in (U+1)..Len(path_parts) : path_parts[k] \in known_projects}
    IN  IF known # {} THEN path_parts[Max(known)] ELSE ""

\* the part after Documents/.../codebase, else the last part
LastPartName(path_parts, project_name) ==
    IF project_name # "" THEN project_name
    ELSE IF /\ \E k \in 1..Len(path_parts) : path_parts[k] = "Documents"
            /\ \E k \in 1..Len(path_parts) : path_parts[k] = "codebase"
            /\ IndexOf(path_parts, "codebase") < Len(path_parts)
    THEN path_parts[IndexOf(path_parts, "codebase") + 1]
    ELSE path_parts[Len(path_parts)]

SkipUsername(project_name) ==
    IF project_name = current_username THEN "Home Directory" ELSE project_name

SkipContainer(path_parts, project_name) ==
    IF /\ project_name \in project_containers
       /\ IndexOf(path_parts, project_name) < Len(path_parts)
    THEN path_parts[IndexOf(path_parts, project_name) + 1]
    ELSE project_name

FirstNonSystemName(path_parts, U, project_name) ==
    LET other == {k \in (U+1)..Len(path_parts) :
                    path_parts[k] \notin system_dirs \cup project_containers}
    IN  IF project_name = "" /\ other # {} THEN path_parts[Min(other)]
        ELSE project_name

NameOrUnknown(project_name) ==
    IF project_name # "" THEN project_name ELSE "Unknown Project"

extract_project_name_from_path(root_path) ==
    IF root_path = <<>> \/ root_path = <<"/">> THEN "Root"
    ELSE
    LET path_parts == PathParts(root_path)
        n     == Len(path_parts)
        homes == {k \in 1..n : path_parts[k] \in home_dir_patterns}
        U     == Min(homes) + 1
    IN  IF homes # {} /\ U <= n /\ path_parts[U] = current_username /\ n <= U
        THEN "Home Directory"
        ELSE NameOrUnknown(SkipUsername(
               IF homes # {} /\ U < n
               THEN FirstNonSystemName(path_parts, U,
                      SkipContainer(path_parts,
                        SkipUsername(
                          LastPartName(path_parts,
                            KnownProjectName(path_parts, U)))))
               ELSE IF n > 0 THEN path_parts[n] ELSE "Root"))

RECURSIVE CommonPrefix2(_, _)
CommonPrefix2(a, b) ==
    IF a = <<>> \/ b = <<>> THEN <<>>
    ELSE IF Head(a) = Head(b) THEN <<Head(a)>> \o CommonPrefix2(Tail(a), Tail(b))
    ELSE <<>>

\* os.path.commonprefix of a non-empty list
RECURSIVE commonprefix(_)
commonprefix(paths) ==
    IF Len(paths) = 1 THEN paths[1]
    ELSE CommonPrefix2(paths[1], commonprefix(Tail(paths)))

\* str.rfind('/') > 0 and the slice [:rfind('/')]: the position of the last
\* "/" that is not the first element, 0 when there is none
LastSeparator(path) ==
    LET seps == {k \in 2..Len(path) : path[k] = "/"}
    IN  IF seps = {} THEN 0 ELSE Max(seps)

\* str.lstrip('/') and str.strip('/')
RECURSIVE LStrip(_)
LStrip(path) ==
    IF path # <<>> /\ Head(path) = "/" THEN LStrip(Tail(path)) ELSE path
RECURSIVE RStrip(_)
RStrip(path) ==
    IF path # <<>> /\ path[Len(path)] = "/"
    THEN RStrip(SubSeq(path, 1, Len(path) - 1)) ELSE path

IsFileUri(resource) == resource # <<>> /\ Head(resource) = "file:///"

UnknownProject == [name |-> "(unknown)", rootPath |-> <<"(unknown)">>]

(***************************************************************************)
(* workspace_info                                                          *)
(***************************************************************************)
EmptyMap == [x \in {} |-> x]

\* the file paths of history.entries; an entry that is no JSON object makes
\* e.get raise AttributeError
RECURSIVE HistoryPaths(_)
HistoryPaths(ents) ==
    IF ents = <<>> THEN Ok(<<>>)
    ELSE LET e == Head(ents)
         IN  IF e.shape # "dict" THEN Raise(<<>>)
             ELSE Then(Ok(IF IsFileUri(e.resource) THEN <<Tail(e.resource)>> ELSE <<>>),
                       HistoryPaths(Tail(ents)))

ProjectFromHistory(paths) ==
    LET common_prefix        == commonprefix(paths)
        last_separator_index == LastSeparator(common_prefix)
        project_root         == SubSeq(common_prefix, 1, last_separator_index - 1)
    IN  IF paths = <<>> \/ last_separator_index = 0 THEN UnknownProject
        ELSE [name     |-> extract_project_name_from_path(project_root),
              rootPath |-> <<"/">> \o LStrip(project_root)]

\* proj after "Check debug.selectedroot as a fallback": proj is kept when the
\* record is absent or no file URI
ProjectFromSelectedRoot(selected_root, proj) ==
    LET path      == Tail(selected_root)
        root_path == <<"/">> \o RStrip(LStrip(path))
    IN  IF IsFileUri(selected_root) /\ path # <<>>
        THEN [name     |-> extract_project_name_from_path(root_path),
              rootPath |-> root_path]
        ELSE proj

Meta(title, createdAt, lastUpdatedAt) ==
    [title |-> title, createdAt |-> createdAt, lastUpdatedAt |-> lastUpdatedAt]

\* cid[:8] of the ids of the model: only the aiService ids are longer
Prefix8(cid) ==
    IF cid \in {ai_service_composer_id(WsPath(i)) : i \in 1..(MaxWs + 1)}
    THEN "aiServic" ELSE cid
ChatTitle(cid) == "Chat " \o Prefix8(cid)

\* comp_meta[c["composerId"]] = ...: KeyError for an entry without the key
RECURSIVE ComposersMeta(_, _)
ComposersMeta(comps, comp_meta) ==
    IF comps = <<>> THEN [comp_meta |-> comp_meta, raised |-> FALSE]
    ELSE LET c == Head(comps)
         IN  IF c.composerId = Missing
             THEN [comp_meta |-> comp_meta, raised |-> TRUE]
             ELSE ComposersMeta(Tail(comps),
                    (c.composerId :> Meta(GetDefault(c.name, "(untitled)"),
                                          c.createdAt, c.lastUpdatedAt))
                    @@ comp_meta)

RECURSIVE TabsMeta(_, _)
TabsMeta(tabs, comp_meta) ==
    IF tabs = <<>> THEN [comp_meta |-> comp_meta, raised |-> FALSE]
    ELSE LET tab    == Head(tabs)
             tab_id == Get(tab.tabId)
         IN  IF tab.shape # "dict" THEN [comp_meta |-> comp_meta, raised |-> TRUE]
             ELSE IF Truthy(tab_id) /\ tab_id \notin DOMAIN comp_meta
             THEN TabsMeta(Tail(tabs),
                    (tab_id :> Meta(ChatTitle(tab_id), NoneNum, NoneNum)) @@ comp_meta)
             ELSE TabsMeta(Tail(tabs), comp_meta)

\* sqlite3.DatabaseError gives the unknown project and no metadata; the
\* other exceptions raised here leave workspace_info
workspace_info(db) ==
    IF db.status # "ok"
    THEN [proj |-> UnknownProject, comp_meta |-> EmptyMap, raised |-> FALSE] ELSE
    LET paths == HistoryPaths(db.history)
        proj1 == ProjectFromHistory(paths.yields)
        proj  == IF proj1.name = "(unknown)"
                 THEN ProjectFromSelectedRoot(db.selectedroot, proj1) ELSE proj1
        cm    == ComposersMeta(db.composers, EmptyMap)
        tm    == TabsMeta(db.tabs, cm.comp_meta)
    IN  IF paths.raised \/ cm.raised \/ tm.raised
        THEN [proj |-> UnknownProject, comp_meta |-> EmptyMap, raised |-> TRUE]
        ELSE [proj |-> proj, comp_meta |-> tm.comp_meta, raised |-> FALSE]

(***************************************************************************)
(* The state of extract_chats.                                             *)
(***************************************************************************)
VARIABLES
    pc,         \* where extract_chats is
    system,     \* platform.system()
    ws_proj,    \* workspace id -> project
    comp_meta,  \* session id -> title, createdAt, lastUpdatedAt
    comp2ws,    \* session id -> workspace id
    sessions,   \* the defaultdict, in insertion order: cid, messages, db_path
    out,        \* the list returned
    scanned,    \* the workspace databases enumerated so far, in scan order
    global_db,  \* the global database, once located
    raised_in,  \* the function whose exception left extract_chats
    open,       \* the calls whose sqlite3 connection is open
    max_open,   \* the most connections open at once so far
    first_out,  \* what the first call returned, once extract_chats is called again
    formatted,  \* the list get_chats passes to jsonify
    resolved    \* a call of extract_project_name_from_path: root_path, project_name

vars == <<pc, system, ws_proj, comp_meta, comp2ws, sessions, out, scanned,
          global_db, raised_in, open, max_open, first_out, formatted, resolved, md5>>

\* cursor_root: the storage root, or Missing for RuntimeError
cursor_root(s) ==
    IF s = "Darwin" THEN "~/Library/Application Support/Cursor"
    ELSE IF s = "Windows" THEN "~/AppData/Roaming/Cursor"
    ELSE IF s = "Linux" THEN "~/.config/Cursor"
    ELSE Missing

NoDb ==
    [path |-> Missing, status |-> "ok", prompts |-> <<>>, bubbles |-> <<>>, composerData |-> <<>>,
     tabs |-> <<>>]

\* sqlite3.connect by the call name: one more connection is open
Connect(name) == Max({max_open, Cardinality(open \cup {name})})
\* what is open after the call name: a connection on which it has not called
\* close() stays open until the garbage collector finalizes it, which may
\* be at once or not before the end of the run
AfterCall(name, closes) == IF closes THEN {open} ELSE {open \cup {name}, open}

\* iter_bubbles_from_disk_kv reaches con.close() when the table is missing
\* and after the last row, not from the handler of sqlite3.DatabaseError
\* nor when an exception leaves the generator
BubblesClose(db, raised) == ~raised /\ db.status # "unreadable"
\* iter_composer_data: as above; when the body of the loop over it raises,
\* the generator is left suspended at its yield
ComposerDataCloses(db, raised) == ~raised /\ db.status # "unreadable"
\* the global ItemTable: con.close() is the last statement of the try, and
\* an exception, from the query or from a tab, skips it
ItemTableCloses(db) ==
    /\ db.status \notin {"unreadable", "no_item"}
    /\ \A k \in DOMAIN db.tabs : db.tabs[k].shape = "dict"

RECURSIVE SumItems(_)
SumItems(dbs) == IF dbs = <<>> THEN 0 ELSE Items(Head(dbs)) + SumItems(Tail(dbs))
\* rows still allowed by MaxItems
Budget == MaxItems - SumItems(scanned) - GItems(global_db)

(***************************************************************************)
(* sessions = defaultdict(lambda: {"messages": []})                        *)
(***************************************************************************)
HasSession(ss, cid) == \E k \in 1..Len(ss) : ss[k].cid = cid
SessionIndex(ss, cid) == CHOOSE k \in 1..Len(ss) : ss[k].cid = cid
\* sessions[cid]: the entry is created when it is missing
Touch(ss, cid) ==
    IF HasSession(ss, cid) THEN ss
    ELSE Append(ss, [cid |-> cid, messages |-> <<>>, db_path |-> Missing])
\* AppendMessage with the list of the session replaced instead of extended
AppendMessage_Overwrite(ss, cid, msg) ==
    LET t == Touch(ss, cid)
    IN  [t EXCEPT ![SessionIndex(t, cid)].messages = <<msg>>]
\* AppendMessage with a new entry for every message, whatever its id
AppendMessage_NewEntry(ss, cid, msg) ==
    Append(ss, [cid |-> cid, messages |-> <<msg>>, db_path |-> Missing])
\* sessions[cid]["messages"].append(msg)
AppendMessage(ss, cid, msg) ==
    LET t == Touch(ss, cid)
    IN  [t EXCEPT ![SessionIndex(t, cid)].messages = Append(@, msg)]
\* if "db_path" not in sessions[cid]: sessions[cid]["db_path"] = db_path
RecordDbPath(ss, cid, db_path) ==
    LET t == Touch(ss, cid)
        k == SessionIndex(t, cid)
    IN  IF t[k].db_path = Missing THEN [t EXCEPT ![k].db_path = db_path] ELSE t

Message(role, content) == [role |-> role, content |-> content]

\* MergeYield without the test "if cid not in comp_meta"
MergeYield_NoGuard(st, y, ws_id) ==
    [sessions  |-> RecordDbPath(
                     AppendMessage(st.sessions, y.cid, Message(y.role, y.text)),
                     y.cid, y.db_path),
     comp_meta |-> (y.cid :> Meta(ChatTitle(y.cid), NoneNum, NoneNum))
                   @@ st.comp_meta,
     comp2ws   |-> (y.cid :> ws_id) @@ st.comp2ws]

\* the body of the loops over iter_chat_from_item_table and
\* iter_bubbles_from_disk_kv, which differ in ws_id only
MergeYield(st, y, ws_id) ==
    LET known == y.cid \in DOMAIN st.comp_meta
    IN  [sessions  |-> RecordDbPath(
                         AppendMessage(st.sessions, y.cid, Message(y.role, y.text)),
                         y.cid, y.db_path),
         comp_meta |-> IF known THEN st.comp_meta
                       ELSE (y.cid :> Meta(ChatTitle(y.cid), NoneNum, NoneNum))
                            @@ st.comp_meta,
         comp2ws   |-> IF known THEN st.comp2ws ELSE (y.cid :> ws_id) @@ st.comp2ws]

RECURSIVE MergeYields(_, _, _)
MergeYields(st, ys, ws_id) ==
    IF ys = <<>> THEN st
    ELSE MergeYields(MergeYield(st, Head(ys), ws_id), Tail(ys), ws_id)

State == [sessions |-> sessions, comp_meta |-> comp_meta, comp2ws |-> comp2ws]

Init ==
    /\ pc = "start"
    /\ system \in {"Linux", "SunOS"}
    /\ ws_proj = EmptyMap
    /\ comp_meta = EmptyMap
    /\ comp2ws = EmptyMap
    /\ sessions = <<>>
    /\ out = <<>>
    /\ scanned = <<>>
    /\ global_db = NoDb
    /\ raised_in = Missing
    /\ open = {}
    /\ max_open = 0
    /\ first_out = <<>>
    /\ formatted = <<>>
    /\ resolved = [root_path |-> <<>>, project_name |-> ""]
    /\ md5 = Md5Distinct

\* root = cursor_root()
Start ==
    /\ pc = "start"
    /\ IF cursor_root(system) = Missing
       THEN pc' = "raised" /\ raised_in' = "cursor_root"
       ELSE pc' = "workspaces" /\ raised_in' = raised_in
    /\ UNCHANGED <<system, ws_proj, comp_meta, comp2ws, sessions, out, scanned,
                   global_db, open, max_open, first_out, formatted, resolved, md5>>

\* the body of "for ws_id, db in workspaces(root)" on the maps st, info being
\* what workspace_info(db) returned
MergeWorkspace(st, db, ws_id, info) ==
    MergeYields([sessions  |-> st.sessions,
                 comp_meta |-> info.comp_meta @@ st.comp_meta,
                 comp2ws   |-> [cid \in DOMAIN info.comp_meta |-> ws_id]
                               @@ st.comp2ws],
                iter_chat_from_item_table(db).yields, ws_id)

\* one iteration of "for ws_id, db in workspaces(root)"
ProcessWorkspace ==
    /\ pc = "workspaces"
    /\ Len(scanned) < MaxWs
    /\ \E db \in WsDbs(WsPath(Len(scanned) + 1), Budget) :
         LET ws_id == WsId(Len(scanned) + 1)
             info  == workspace_info(db)
             gen   == iter_chat_from_item_table(db)
             st    == MergeWorkspace(State, db, ws_id, info)
         IN  /\ scanned' = Append(scanned, db)
             /\ IF info.raised
                THEN /\ pc' = "raised"
                     /\ raised_in' = "workspace_info"
                     /\ UNCHANGED <<ws_proj, comp_meta, comp2ws, sessions>>
                ELSE /\ ws_proj' = (ws_id :> info.proj) @@ ws_proj
                     /\ comp_meta' = st.comp_meta
                     /\ comp2ws' = st.comp2ws
                     /\ sessions' = st.sessions
                     /\ IF gen.raised
                        THEN pc' = "raised" /\ raised_in' = "iter_chat_from_item_table"
                        ELSE pc' = "workspaces" /\ raised_in' = raised_in
    \* workspace_info and iter_chat_from_item_table close in a finally clause
    /\ max_open' = Max({Connect("workspace_info"),
                        Connect("iter_chat_from_item_table")})
    /\ UNCHANGED <<system, out, global_db, open, first_out, formatted, resolved, md5>>

\* global_db = global_storage_path(root), after the last workspace
LocateGlobal ==
    /\ pc = "workspaces"
    /\ \E db \in {NoDb} \cup GlobalDbs(Budget) :
         /\ global_db' = db
         /\ pc' = IF db.path = Missing THEN "build" ELSE "global_bubbles"
    /\ UNCHANGED <<system, ws_proj, comp_meta, comp2ws, sessions, out, scanned,
                   raised_in, open, max_open, first_out, formatted, resolved, md5>>

\* the loop over iter_bubbles_from_disk_kv(global_db)
GlobalBubbles ==
    /\ pc = "global_bubbles"
    /\ LET gen == iter_bubbles_from_disk_kv(global_db)
           st  == MergeYields(State, gen.yields, "(global)")
       IN  /\ comp_meta' = st.comp_meta
           /\ comp2ws' = st.comp2ws
           /\ sessions' = st.sessions
           /\ IF gen.raised
              THEN pc' = "raised" /\ raised_in' = "iter_bubbles_from_disk_kv"
              ELSE pc' = "global_composers" /\ raised_in' = raised_in
           /\ open' \in AfterCall("iter_bubbles_from_disk_kv",
                                  BubblesClose(global_db, gen.raised))
    /\ max_open' = Connect("iter_bubbles_from_disk_kv")
    /\ UNCHANGED <<system, ws_proj, out, scanned, global_db, first_out, formatted, resolved, md5>>

\* the loop over data.get("conversation", [])
RECURSIVE ConversationLoop(_, _, _)
ConversationLoop(ss, cid, conversation) ==
    IF conversation = <<>> THEN ss
    ELSE LET msg     == Head(conversation)
             role    == IF msg.type = 1 THEN "user" ELSE "assistant"
             content == GetDefault(msg.text, "")
         IN  IF msg.type = NoneNum
             THEN ConversationLoop(ss, cid, Tail(conversation))
             ELSE IF Truthy(content) /\ IsStr(content)
             THEN ConversationLoop(AppendMessage(ss, cid, Message(role, content)),
                                   cid, Tail(conversation))
             ELSE ConversationLoop(ss, cid, Tail(conversation))

\* the body of the loop over iter_composer_data(global_db); data.get raises
\* AttributeError when the document is no JSON object
MergeComposer(st, y) ==
    LET known == y.cid \in DOMAIN st.comp_meta
        ss    == RecordDbPath(st.sessions, y.cid, y.db_path)
    IN  [sessions  |-> IF y.data.conversation # <<>>
                       THEN ConversationLoop(ss, y.cid, y.data.conversation)
                       ELSE ss,
         comp_meta |-> IF known THEN st.comp_meta
                       ELSE (y.cid :> Meta(ChatTitle(y.cid), y.data.createdAt,
                                           y.data.createdAt))
                            @@ st.comp_meta,
         comp2ws   |-> IF known THEN st.comp2ws
                       ELSE (y.cid :> "(global)") @@ st.comp2ws,
         raised    |-> FALSE]

RECURSIVE MergeComposers(_, _)
MergeComposers(st, ys) ==
    IF ys = <<>> THEN st
    ELSE IF Head(ys).data.json # "dict" THEN [st EXCEPT !.raised = TRUE]
    ELSE MergeComposers(MergeComposer(st, Head(ys)), Tail(ys))

GlobalComposers ==
    /\ pc = "global_composers"
    /\ LET gen == iter_composer_data(global_db)
           st  == MergeComposers([sessions |-> sessions, comp_meta |-> comp_meta,
                                  comp2ws |-> comp2ws, raised |-> FALSE],
                                 gen.yields)
       IN  /\ comp_meta' = st.comp_meta
           /\ comp2ws' = st.comp2ws
           /\ sessions' = st.sessions
           /\ IF st.raised
              THEN pc' = "raised" /\ raised_in' = "extract_chats"
              ELSE pc' = "global_items" /\ raised_in' = raised_in
           /\ open' \in AfterCall("iter_composer_data",
                                  ComposerDataCloses(global_db, st.raised))
    /\ max_open' = Connect("iter_composer_data")
    /\ UNCHANGED <<system, ws_proj, out, scanned, global_db, first_out, formatted, resolved, md5>>

\* the loop over tab.get("bubbles", []) of the global ItemTable
RECURSIVE GlobalBubblesLoop(_, _, _)
GlobalBubblesLoop(ss, tab_id, bubbles) ==
    IF bubbles = <<>> THEN ss
    ELSE LET bubble  == Head(bubbles)
             content == IF bubble.text # Missing THEN bubble.text
                        ELSE IF bubble.content # Missing THEN bubble.content
                        ELSE ""
             role    == IF Get(bubble.type) = "user" THEN "user" ELSE "assistant"
         IN  IF Truthy(content) /\ IsStr(content)
             THEN GlobalBubblesLoop(AppendMessage(ss, tab_id, Message(role, content)),
                                    tab_id, Tail(bubbles))
             ELSE GlobalBubblesLoop(ss, tab_id, Tail(bubbles))

\* the loop over chat_data.get("tabs", []) of the global ItemTable; it runs in
\* a try whose handler catches every exception, so the loop stops at a tab
\* that is no JSON object and what was merged before it stays
RECURSIVE GlobalTabsLoop(_, _)
GlobalTabsLoop(st, tabs) ==
    IF tabs = <<>> THEN st
    ELSE LET tab    == Head(tabs)
             tab_id == Get(tab.tabId)
             key    == IF tab_id = Null THEN NoneKey ELSE tab_id
             fresh  == Truthy(tab_id) /\ tab_id \notin DOMAIN st.comp_meta
         IN  IF tab.shape # "dict" THEN st
             ELSE GlobalTabsLoop(
                    [sessions  |-> GlobalBubblesLoop(st.sessions, key, tab.bubbles),
                     comp_meta |-> IF fresh
                                   THEN (tab_id :> Meta("Global " \o ChatTitle(tab_id),
                                                        NoneNum, NoneNum))
                                        @@ st.comp_meta
                                   ELSE st.comp_meta,
                     comp2ws   |-> IF fresh THEN (tab_id :> "(global)") @@ st.comp2ws
                                   ELSE st.comp2ws],
                    Tail(tabs))

GlobalItemTable ==
    /\ pc = "global_items"
    /\ LET st == GlobalTabsLoop(State, global_db.tabs)
       IN  /\ comp_meta' = st.comp_meta
           /\ comp2ws' = st.comp2ws
           /\ sessions' = st.sessions
    /\ open' \in AfterCall("extract_chats", ItemTableCloses(global_db))
    /\ max_open' = Connect("extract_chats")
    /\ pc' = "build"
    /\ UNCHANGED <<system, ws_proj, out, scanned, global_db, raised_in, first_out, formatted, resolved, md5>>

(***************************************************************************)
(* 3. Build final list                                                     *)
(***************************************************************************)
\* one element of out; db_path is Missing when the key is absent
ChatData(data) ==
    LET cid   == data.cid
        ws_id == IF cid \in DOMAIN comp2ws THEN comp2ws[cid] ELSE "(unknown)"
        meta  == IF cid \in DOMAIN comp_meta THEN comp_meta[cid]
                 ELSE Meta("(untitled)", NoneNum, NoneNum)
    IN  [project      |-> IF ws_id \in DOMAIN ws_proj THEN ws_proj[ws_id]
                          ELSE UnknownProject,
         session      |-> [composerId    |-> cid,
                           title         |-> meta.title,
                           createdAt     |-> meta.createdAt,
                           lastUpdatedAt |-> meta.lastUpdatedAt],
         messages     |-> data.messages,
         workspace_id |-> ws_id,
         db_path      |-> data.db_path]

\* BuildList without the test "if not data["messages"]: continue"
RECURSIVE BuildList_KeepEmpty(_)
BuildList_KeepEmpty(ss) ==
    IF ss = <<>> THEN <<>>
    ELSE <<ChatData(Head(ss))>> \o BuildList_KeepEmpty(Tail(ss))

\* for cid, data in sessions.items(): sessions without messages are skipped
RECURSIVE BuildList(_)
BuildList(ss) ==
    IF ss = <<>> THEN <<>>
    ELSE IF Head(ss).messages = <<>> THEN BuildList(Tail(ss))
    ELSE <<ChatData(Head(ss))>> \o BuildList(Tail(ss))

\* a JSON number that is NaN: json.loads accepts the literal NaN
NaN == -2

\* s["session"].get("lastUpdatedAt") or 0 (NaN is true, so it stays the key)
SortKey(s) ==
    IF s.session.lastUpdatedAt = NoneNum \/ s.session.lastUpdatedAt = 0 THEN 0
    ELSE s.session.lastUpdatedAt

\* a < b on two sort keys: every comparison with NaN is False
Lt(a, b) == a # NaN /\ b # NaN /\ a < b

\* "<" between a string and a number raises TypeError, and list.sort compares
\* every element with another one of the list, so it raises when the keys
\* are of both types
SortRaises(list) ==
    \E i, k \in DOMAIN list :
        SortKey(list[i]) = TextStamp /\ SortKey(list[k]) # TextStamp

Reverse(list) == The({[i \in 1..Len(l) |-> l[Len(l) + 1 - i]] : l \in {list}})

\* the last index of the run that starts the list, from index i on
RECURSIVE RunEnd(_, _, _)
RunEnd(list, i, descending) ==
    IF i > Len(list) THEN Len(list)
    ELSE IF Lt(SortKey(list[i]), SortKey(list[i - 1])) = descending
    THEN RunEnd(list, i + 1, descending)
    ELSE i - 1

\* count_run of list.sort: the length of the run that starts the list, and
\* whether it is strictly descending
count_run(list) ==
    IF Len(list) = 1 THEN [n |-> 1, descending |-> FALSE]
    ELSE LET descending == Lt(SortKey(list[2]), SortKey(list[1]))
         IN  [n |-> RunEnd(list, 3, descending), descending |-> descending]

\* the binary search of binarysort: where pivot goes in list[l .. r - 1]
RECURSIVE Bisect(_, _, _, _)
Bisect(list, pivot, l, r) ==
    IF l >= r THEN l
    ELSE LET p == l + ((r - l) \div 2)
         IN  IF Lt(SortKey(pivot), SortKey(list[p])) THEN Bisect(list, pivot, l, p)
             ELSE Bisect(list, pivot, p + 1, r)

\* binarysort of list.sort: list[1 .. start - 1] is a run; each later element
\* is inserted where the binary search puts it
RECURSIVE binarysort(_, _)
binarysort(list, start) ==
    IF start > Len(list) THEN list
    ELSE LET l == Bisect(list, list[start], 1, start)
         IN  The({binarysort(inserted, start + 1) :
                    inserted \in {SubSeq(list, 1, l - 1) \o <<list[start]>>
                                  \o SubSeq(list, l, start - 1)
                                  \o SubSeq(list, start + 1, Len(list))}})

\* list.sort(key=..., reverse=True) of CPython on a list of fewer than 64
\* elements: the list is reversed, its first run is found (and reversed when
\* it descends), the other elements are inserted by binary search, and the
\* list is reversed again.  When "<" orders the keys the result is descending
\* and elements with equal keys keep their order.
Sorted(list) ==
    IF Len(list) < 2 THEN list
    ELSE The({LET run   == count_run(reversed)
                  first == IF run.descending
                           THEN Reverse(SubSeq(reversed, 1, run.n))
                                \o SubSeq(reversed, run.n + 1, Len(reversed))
                           ELSE reversed
              IN  Reverse(binarysort(first, run.n + 1)) :
                reversed \in {Reverse(list)}})

BuildFinal ==
    /\ pc = "build"
    /\ IF SortRaises(BuildList(sessions))
       THEN /\ pc' = "raised"
            /\ raised_in' = "extract_chats"
            /\ out' = out
       ELSE /\ pc' = "done"
            /\ raised_in' = raised_in
            /\ out' = Sorted(BuildList(sessions))
    /\ UNCHANGED <<system, ws_proj, comp_meta, comp2ws, sessions, scanned,
                   global_db, open, max_open, first_out, formatted, resolved, md5>>

(***************************************************************************)
(* A second call of extract_chats, on the databases the first call read.   *)
(* The first call returned, so no row raises in the second.                *)
(***************************************************************************)
\* the maps of a call before its first loop, as the previous call left them
Locals_Stale == State
\* ws_proj, comp_meta, comp2ws, sessions are created by each call
Locals == [sessions |-> <<>>, comp_meta |-> EmptyMap, comp2ws |-> EmptyMap]

\* 1. Process workspace DBs first
RECURSIVE ScanWorkspaces(_, _, _)
ScanWorkspaces(st, dbs, k) ==
    IF k > Len(dbs) THEN st
    ELSE ScanWorkspaces(MergeWorkspace(st, dbs[k], WsId(k), workspace_info(dbs[k])),
                        dbs, k + 1)

RECURSIVE ProjectsOf(_, _)
ProjectsOf(dbs, k) ==
    IF k > Len(dbs) THEN EmptyMap
    ELSE ProjectsOf(dbs, k + 1) @@ (WsId(k) :> workspace_info(dbs[k]).proj)

\* 2. Process global storage
ScanGlobal(st, db) ==
    IF db.path = Missing THEN st
    ELSE LET b == MergeYields(st, iter_bubbles_from_disk_kv(db).yields, "(global)")
             c == MergeComposers([sessions |-> b.sessions, comp_meta |-> b.comp_meta,
                                  comp2ws |-> b.comp2ws, raised |-> FALSE],
                                 iter_composer_data(db).yields)
         IN  GlobalTabsLoop([sessions |-> c.sessions, comp_meta |-> c.comp_meta,
                             comp2ws |-> c.comp2ws], db.tabs)

\* the connections a call opens, in order, each with whether it is closed
CallsOf(dbs, db, run) ==
    (IF dbs = <<>> THEN <<>>
     ELSE <<[name |-> run \o "workspace_info", closes |-> TRUE],
            [name |-> run \o "iter_chat_from_item_table", closes |-> TRUE]>>)
    \o (IF db.path = Missing THEN <<>>
        ELSE <<[name   |-> run \o "iter_bubbles_from_disk_kv",
                closes |-> BubblesClose(db, FALSE)],
               [name   |-> run \o "iter_composer_data",
                closes |-> ComposerDataCloses(db, FALSE)],
               [name   |-> run \o "extract_chats",
                closes |-> ItemTableCloses(db)]>>)

\* what is open, and the most that was open, after the connections cs
RECURSIVE Connections(_, _, _)
Connections(o, m, cs) ==
    IF cs = <<>> THEN {[open |-> o, max_open |-> m]}
    ELSE LET c  == Head(cs)
             m1 == Max({m, Cardinality(o \cup {c.name})})
         IN  UNION {Connections(o2, m1, Tail(cs)) :
                      o2 \in IF c.closes THEN {o} ELSE {o \cup {c.name}, o}}

CallAgain ==
    /\ pc = "done"
    /\ LET st == ScanGlobal(ScanWorkspaces(Locals, scanned, 1), global_db)
       IN  /\ sessions' = st.sessions
           /\ comp_meta' = st.comp_meta
           /\ comp2ws' = st.comp2ws
    /\ ws_proj' = ProjectsOf(scanned, 1)
    /\ out' = (Sorted(BuildList(sessions)))'
    /\ first_out' = out
    /\ \E r \in Connections(open, max_open, CallsOf(scanned, global_db, "again:")) :
         open' = r.open /\ max_open' = r.max_open
    /\ pc' = "done_again"
    /\ UNCHANGED <<system, scanned, global_db, raised_in, formatted, resolved, md5>>

(***************************************************************************)
(* get_chats: the formatting of what extract_chats returned.               *)
(***************************************************************************)
\* the workspace database extract_project_from_git_repos opens, if it exists
WorkspaceDbOf(workspace_id) ==
    {k \in DOMAIN scanned : WsId(k) = workspace_id}

\* "for repo in repos": the last part of the path of the first repository
\* with the pattern and a path; "" stands for None
RECURSIVE ReposLoop(_)
ReposLoop(repos) ==
    IF repos = <<>> THEN ""
    ELSE LET repo       == Head(repos)
             path_parts == PathParts(Tail(repo))
         IN  IF Head(repo) = "git:Git:file:///" /\ path_parts # <<>>
             THEN path_parts[Len(path_parts)]
             ELSE ReposLoop(Tail(repos))

extract_project_from_git_repos(workspace_id) ==
    IF workspace_id \in {"", "unknown", "(unknown)", "(global)"} THEN ""
    ELSE IF WorkspaceDbOf(workspace_id) = {} THEN ""
    ELSE LET db == scanned[CHOOSE k \in WorkspaceDbOf(workspace_id) : TRUE]
         IN  IF db.status # "ok" THEN "" ELSE ReposLoop(db.repos)

\* str.startswith on a path
StartsWith(path, prefix) ==
    Len(path) >= Len(prefix) /\ SubSeq(path, 1, Len(prefix)) = prefix

\* str.count('/')
CountSlashes(path) == Cardinality({k \in DOMAIN path : path[k] = "/"})

UserHome == <<"/", "Users", "/", current_username>>

\* "If project name is a username or unknown, try to extract a better name
\* from rootPath"
ImprovedName(project) ==
    LET project_name == extract_project_name_from_path(project.rootPath)
        parts        == PathParts(project.rootPath)
    IN  IF ~(\/ project.name \in {current_username, "(unknown)", "Root"}
             \/ /\ StartsWith(project.rootPath, UserHome)
                /\ CountSlashes(project.rootPath) <= 3)
        THEN project.name
        ELSE IF project_name \notin {"Unknown Project", current_username,
                                     "Documents", "Downloads", "Desktop"}
        THEN project_name
        ELSE IF StartsWith(project.rootPath,
                           UserHome \o <<"/", "Documents", "/", "codebase", "/">>)
        \* parts[5] of split('/'), whose first element is empty
        THEN IF Len(parts) > 4 THEN parts[5] ELSE "cursor-view"
        ELSE project.name

\* "If the project doesn't have a rootPath or it's very generic, enhance it
\* with workspace_id"
EnhancedRootPath(rootPath, workspace_id) ==
    IF workspace_id = "unknown" THEN rootPath
    ELSE IF rootPath = <<>> THEN <<"/", "workspace", "/", workspace_id>>
    ELSE IF rootPath \in {<<"/">>, <<"/", "Users">>}
    THEN rootPath \o <<"/", "workspace", "/", workspace_id>>
    ELSE rootPath

\* GitName without the test that the name is still generic
GitName_Always(name, workspace_id) ==
    IF extract_project_from_git_repos(workspace_id) # ""
    THEN extract_project_from_git_repos(workspace_id)
    ELSE name

\* the fallback to the git repositories of the workspace
GitName(name, workspace_id) ==
    IF name \in {"Home Directory", "(unknown)"}
         /\ extract_project_from_git_repos(workspace_id) # ""
    THEN extract_project_from_git_repos(workspace_id)
    ELSE name

\* created_at / 1000, as the fraction
Seconds(created_at) == <<created_at, 1000>>

\* what format_chat_for_frontend returns from its handler
Placeholder ==
    [project      |-> [name |-> "Error", rootPath |-> <<"/">>],
     messages     |-> <<>>,
     date         |-> "now",
     session_id   |-> "uuid4",
     workspace_id |-> "error",
     db_path      |-> "Error retrieving database path"]

\* the handler of format_chat_for_frontend left out: the exception reaches
\* get_chats, which skips the chat
format_chat_for_frontend_Skip(chat, project) ==
    IF chat.session.createdAt = Huge THEN <<>>
    ELSE <<[project |->
              [name         |-> GitName(ImprovedName(project), chat.workspace_id),
               rootPath     |-> EnhancedRootPath(project.rootPath, chat.workspace_id),
               workspace_id |-> chat.workspace_id],
            messages     |-> chat.messages,
            date         |-> IF chat.session.createdAt \notin {NoneNum, 0}
                             THEN Seconds(chat.session.createdAt) ELSE "now",
            session_id   |-> chat.session.composerId,
            workspace_id |-> chat.workspace_id,
            db_path      |-> chat.db_path]>>

\* the records format_chat_for_frontend adds to formatted_chats for one chat,
\* project being chat['project'] as the chats formatted before left it
format_chat_for_frontend(chat, project) ==
    IF chat.session.createdAt = Huge THEN <<Placeholder>>
    ELSE <<[project |->
              [name         |-> GitName(ImprovedName(project), chat.workspace_id),
               rootPath     |-> EnhancedRootPath(project.rootPath, chat.workspace_id),
               workspace_id |-> chat.workspace_id],
            messages     |-> chat.messages,
            date         |-> IF chat.session.createdAt \notin {NoneNum, 0}
                             THEN Seconds(chat.session.createdAt) ELSE "now",
            session_id   |-> chat.session.composerId,
            workspace_id |-> chat.workspace_id,
            db_path      |-> chat.db_path]>>

\* for chat in chats: formatted_chats.append(format_chat_for_frontend(chat)).
\* The chats of one workspace hold the same dict ws_proj[ws_id], which
\* formatting changes in place: projs is that dict of each workspace so far.
RECURSIVE FormatLoop(_, _, _)
FormatLoop(chats, projs, acc) ==
    IF chats = <<>> THEN [formatted_chats |-> acc, projs |-> projs]
    ELSE LET chat   == Head(chats)
             ws_id  == chat.workspace_id
             shared == ws_id \in DOMAIN ws_proj
             r      == format_chat_for_frontend(chat,
                         IF ws_id \in DOMAIN projs THEN projs[ws_id]
                         ELSE chat.project)
         IN  FormatLoop(Tail(chats),
                        IF shared /\ r # <<>> /\ r # <<Placeholder>>
                        THEN (ws_id :> r[1].project) @@ projs ELSE projs,
                        acc \o r)

\* jsonify(formatted_chats): a record whose project is the dict of a
\* workspace shows that dict as the last chat left it
jsonify(loop) ==
    [i \in DOMAIN loop.formatted_chats |->
       LET r == loop.formatted_chats[i]
       IN  IF r.workspace_id \in DOMAIN loop.projs
           THEN [r EXCEPT !.project = loop.projs[r.workspace_id]] ELSE r]

GetChats ==
    /\ pc = "done"
    /\ formatted' = jsonify(FormatLoop(out, EmptyMap, <<>>))
    /\ pc' = "formatted"
    /\ UNCHANGED <<system, ws_proj, comp_meta, comp2ws, sessions, out, scanned,
                   global_db, raised_in, open, max_open, first_out, resolved, md5>>

Next ==
    \/ CallAgain
    \/ GetChats
    \/ Start
    \/ ProcessWorkspace
    \/ LocateGlobal
    \/ GlobalBubbles
    \/ GlobalComposers
    \/ GlobalItemTable
    \/ BuildFinal

Spec == Init /\ [][Next]_vars

(***************************************************************************)
(* extract_project_name_from_path on its own, called with a path of up to  *)
(* MaxDepth segments.                                                      *)
(***************************************************************************)
Segments == {"Users", "home", "u", "dept", "cursor", "Documents", "codebase"}

\* "/a/b/c" for the segments a, b, c
RECURSIVE Join(_)
Join(segs) ==
    IF segs = <<>> THEN <<>> ELSE <<"/", Head(segs)>> \o Join(Tail(segs))

RootPaths == {Join(segs) : segs \in SeqUpTo(Segments, MaxDepth) \ {<<>>}}

PathInit ==
    /\ pc = "path"
    /\ system = "Linux"
    /\ ws_proj = EmptyMap
    /\ comp_meta = EmptyMap
    /\ comp2ws = EmptyMap
    /\ sessions = <<>>
    /\ out = <<>>
    /\ scanned = <<>>
    /\ global_db = NoDb
    /\ raised_in = Missing
    /\ open = {}
    /\ max_open = 0
    /\ first_out = <<>>
    /\ formatted = <<>>
    /\ \E p \in RootPaths : resolved = [root_path |-> p, project_name |-> ""]
    /\ md5 = Md5Distinct

ResolvePath ==
    /\ pc = "path"
    /\ resolved' = [resolved EXCEPT
                      !.project_name = extract_project_name_from_path(resolved.root_path)]
    /\ pc' = "path_done"
    /\ UNCHANGED <<system, ws_proj, comp_meta, comp2ws, sessions, out, scanned,
                   global_db, raised_in, open, max_open, first_out, formatted, md5>>

PathSpec == PathInit /\ [][ResolvePath]_vars

(***************************************************************************)
(* get_chats on its own: extract_chats has returned, on one workspace      *)
(* database with every combination of the project signals and, or not, a   *)
(* global database.                                                        *)
(***************************************************************************)
FormatWsDbs ==
    {[path |-> WsPath(1), status |-> "ok", composers |-> c, tabs |-> <<>>,
      prompts |-> <<>>, generations |-> <<>>, history |-> h, selectedroot |-> sr,
      repos |-> r, bubbles |-> <<>>] :
        c \in {<<Composer("c1", "Demo", 1, <<[role |-> "user", content |-> "hi"]>>)>>,
               <<Composer("c2", "Demo", Huge, <<[role |-> "user", content |-> "hi"]>>),
                 Composer("c1", "Demo", 1, <<[role |-> "user", content |-> "hi"]>>)>>},
        h \in SeqUpTo({e \in HistoryEntries : e.shape = "dict"}, 1),
        sr \in SelectedRoots,
        r \in GitRepos}

FormatGlobalDbs ==
    {NoDb,
     [path |-> GlobalPath, status |-> "ok", composerData |-> <<>>, tabs |-> <<>>,
      prompts |-> <<>>,
      bubbles |-> <<Bubble("c2", "dict", 1, "hello again", Missing)>>],
     [path |-> GlobalPath, status |-> "ok", composerData |-> <<>>, bubbles |-> <<>>,
      prompts |-> <<>>,
      tabs |-> <<[shape |-> "dict", tabId |-> Missing,
                  bubbles |-> <<[type |-> "user", text |-> "tab hi",
                                 content |-> Missing]>>]>>]}

FormatInit ==
    /\ pc = "done"
    /\ system = "Linux"
    /\ md5 = Md5Distinct
    /\ \E db \in FormatWsDbs : scanned = <<db>>
    /\ global_db \in FormatGlobalDbs
    /\ ws_proj = ProjectsOf(scanned, 1)
    /\ sessions = ScanGlobal(ScanWorkspaces(Locals, scanned, 1), global_db).sessions
    /\ comp_meta = ScanGlobal(ScanWorkspaces(Locals, scanned, 1), global_db).comp_meta
    /\ comp2ws = ScanGlobal(ScanWorkspaces(Locals, scanned, 1), global_db).comp2ws
    /\ out = Sorted(BuildList(sessions))
    /\ raised_in = Missing
    /\ open = {}
    /\ max_open = 1
    /\ first_out = <<>>
    /\ formatted = <<>>
    /\ resolved = [root_path |-> <<>>, project_name |-> ""]

FormatSpec == FormatInit /\ [][GetChats]_vars

(***************************************************************************)
(* extract_chats on two workspace databases with prompt and generation     *)
(* logs, whatever the digests of their paths, and then called again.       *)
(***************************************************************************)
Digests == {"caaf2d46", "0b1c9e57"}

LogWsDbs(p) ==
    {[path |-> p, status |-> "ok", composers |-> <<>>, tabs |-> <<>>,
      prompts |-> pr, generations |-> g, history |-> <<>>, selectedroot |-> <<>>,
      repos |-> <<>>, bubbles |-> <<>>] :
        pr \in {<<>>,
                <<[json |-> "list", items |-> <<[text |-> "prompt"]>>]>>,
                <<[json |-> "list", items |-> <<[text |-> "prompt"]>>],
                  [json |-> "list", items |-> <<[text |-> "later"]>>]>>},
        g \in {<<>>, <<[json |-> "list", items |-> <<[textDescription |-> "gen"]>>]>>}}

HashInit ==
    /\ pc = "done"
    /\ system = "Linux"
    /\ md5 \in [WsPaths -> Digests]
    /\ \E db1 \in LogWsDbs(WsPath(1)), db2 \in LogWsDbs(WsPath(2)) :
         scanned = <<db1, db2>>
    /\ global_db = NoDb
    /\ ws_proj = ProjectsOf(scanned, 1)
    /\ sessions = ScanGlobal(ScanWorkspaces(Locals, scanned, 1), global_db).sessions
    /\ comp_meta = ScanGlobal(ScanWorkspaces(Locals, scanned, 1), global_db).comp_meta
    /\ comp2ws = ScanGlobal(ScanWorkspaces(Locals, scanned, 1), global_db).comp2ws
    /\ out = Sorted(BuildList(sessions))
    /\ raised_in = Missing
    /\ open = {}
    /\ max_open = 1
    /\ first_out = <<>>
    /\ formatted = <<>>
    /\ resolved = [root_path |-> <<>>, project_name |-> ""]

HashSpec == HashInit /\ [][CallAgain]_vars

(***************************************************************************)
(* The final sort on its own.  One workspace database, ws1, whose composer  *)
(* document holds MaxSessions composers, each with a message and with any   *)
(* lastUpdatedAt, NaN among them, has been scanned and there is no global   *)
(* database: the loops of extract_chats are over, the list is to be built   *)
(* and sorted.                                                              *)
(***************************************************************************)
MaxSessions == 7

SortTimestamps == {NoneNum, 1, 2, NaN}

SortId(i) == "c" \o ToString(i)

SortWsDb(t) ==
    [path |-> WsPath(1), status |-> "ok",
     composers |-> [i \in 1..MaxSessions |->
                      Composer(SortId(i), "Demo", t[i],
                               <<[role |-> "user", content |-> "hi"]>>)],
     tabs |-> <<>>, prompts |-> <<>>, generations |-> <<>>, history |-> <<>>,
     selectedroot |-> <<>>, repos |-> <<>>, bubbles |-> <<>>]

\* what the loop over the workspaces leaves for SortWsDb(t): a session for
\* each composer, in the order of the document, with its metadata
SortInit ==
    /\ pc = "build"
    /\ system = "Linux"
    /\ md5 = Md5Distinct
    /\ \E t \in [1..MaxSessions -> SortTimestamps] :
         /\ scanned = <<SortWsDb(t)>>
         /\ comp_meta = [cid \in {SortId(i) : i \in 1..MaxSessions} |->
                           LET i == CHOOSE k \in 1..MaxSessions : SortId(k) = cid
                           IN  Meta("Demo", t[i], t[i])]
    /\ global_db = NoDb
    /\ ws_proj = (WsId(1) :> UnknownProject)
    /\ sessions = [i \in 1..MaxSessions |->
                     [cid |-> SortId(i), messages |-> <<Message("user", "hi")>>,
                      db_path |-> WsPath(1)]]
    /\ comp2ws = [cid \in {SortId(i) : i \in 1..MaxSessions} |-> WsId(1)]
    /\ out = <<>>
    /\ raised_in = Missing
    /\ open = {}
    /\ max_open = 1
    /\ first_out = <<>>
    /\ formatted = <<>>
    /\ resolved = [root_path |-> <<>>, project_name |-> ""]

SortSpec == SortInit /\ [][BuildFinal]_vars

(***************************************************************************)
(* The order of the workspaces.  workspaces() yields the folders in the     *)
(* order of ws_root.iterdir(), which is arbitrary and may differ from call  *)
(* to call.  Two workspace databases have been scanned in the order of      *)
(* their folders, the global database has no row that makes a loop raise,   *)
(* and extract_chats is called again with the folders in any order.         *)
(***************************************************************************)
Orders(n) == {o \in [1..n -> 1..n] : \A i, k \in 1..n : o[i] = o[k] => i = k}

\* "for ws_id, db in workspaces(root)" with the folders in the given order;
\* raised_in names the call that raised, if one did
RECURSIVE ScanInOrder(_, _, _)
ScanInOrder(st, dbs, order) ==
    IF order = <<>> \/ st.raised_in # Missing THEN st
    ELSE LET k    == Head(order)
             info == workspace_info(dbs[k])
             gen  == iter_chat_from_item_table(dbs[k])
         IN  IF info.raised THEN [st EXCEPT !.raised_in = "workspace_info"]
             ELSE The({ScanInOrder(
                         [sessions  |-> m.sessions,
                          comp_meta |-> m.comp_meta,
                          comp2ws   |-> m.comp2ws,
                          ws_proj   |-> (WsId(k) :> info.proj) @@ st.ws_proj,
                          raised_in |-> IF gen.raised
                                        THEN "iter_chat_from_item_table"
                                        ELSE Missing],
                         dbs, Tail(order)) :
                       m \in {MergeWorkspace(st, dbs[k], WsId(k), info)}})

\* the loops of extract_chats with the folders in the given order
ExtractInOrder(dbs, order, db) ==
    The({IF w.raised_in # Missing THEN w
         ELSE The({[sessions |-> g.sessions, comp_meta |-> g.comp_meta,
                    comp2ws |-> g.comp2ws, ws_proj |-> w.ws_proj,
                    raised_in |-> Missing] :
                     g \in {ScanGlobal([sessions |-> w.sessions,
                                        comp_meta |-> w.comp_meta,
                                        comp2ws |-> w.comp2ws], db)}}) :
           w \in {ScanInOrder([sessions |-> <<>>, comp_meta |-> EmptyMap,
                               comp2ws |-> EmptyMap, ws_proj |-> EmptyMap,
                               raised_in |-> Missing], dbs, order)}})

OrderComposers ==
    { <<>>,
      <<Composer("c1", "Demo", 1, <<[role |-> "user", content |-> "hi"]>>)>>,
      <<Composer("c1", "Demo", NoneNum, <<[role |-> "user", content |-> "hi"]>>)>>,
      <<Composer("c1", "Demo", TextStamp, <<[role |-> "user", content |-> "hi"]>>)>>,
      <<Composer("c2", "Demo", 2, <<[role |-> "user", content |-> "hi"]>>)>>,
      <<Composer("c1", "Demo", TextStamp, <<[role |-> "user", content |-> "hi"]>>),
        Composer("c2", "Demo", 2, <<[role |-> "user", content |-> "hi"]>>)>> }

OrderTabs ==
    { <<>>,
      <<[shape |-> "dict", tabId |-> "c1",
         bubbles |-> <<[type |-> "user", text |-> "tab hi", content |-> Missing]>>]>>,
      <<[shape |-> "other", tabId |-> Missing, bubbles |-> <<>>]>> }

OrderWsDbs(p) ==
    {[path |-> p, status |-> "ok", composers |-> c, tabs |-> t, prompts |-> <<>>,
      generations |-> <<>>, history |-> <<>>, selectedroot |-> <<>>,
      repos |-> <<>>, bubbles |-> <<>>] : c \in OrderComposers, t \in OrderTabs}

OrderGlobalDbs ==
    {NoDb,
     [path |-> GlobalPath, status |-> "ok", composerData |-> <<>>, tabs |-> <<>>,
      prompts |-> <<>>,
      bubbles |-> <<Bubble("c1", "dict", 1, "hello again", Missing)>>]}

OrderInit ==
    /\ system = "Linux"
    /\ md5 = Md5Distinct
    /\ \E db1 \in OrderWsDbs(WsPath(1)), db2 \in OrderWsDbs(WsPath(2)) :
         scanned = <<db1, db2>>
    /\ global_db \in OrderGlobalDbs
    /\ \E st \in {ExtractInOrder(scanned, <<1, 2>>, global_db)} :
         /\ sessions = st.sessions
         /\ comp_meta = st.comp_meta
         /\ comp2ws = st.comp2ws
         /\ ws_proj = st.ws_proj
         /\ raised_in = IF st.raised_in # Missing THEN st.raised_in
                        ELSE IF SortRaises(BuildList(sessions)) THEN "extract_chats"
                        ELSE Missing
    /\ pc = IF raised_in = Missing THEN "done" ELSE "raised"
    /\ out = IF raised_in = Missing THEN Sorted(BuildList(sessions)) ELSE <<>>
    /\ open = {}
    /\ max_open = 1
    /\ first_out = <<>>
    /\ formatted = <<>>
    /\ resolved = [root_path |-> <<>>, project_name |-> ""]

\* extract_chats is called again and workspaces() yields the folders in any
\* order; raised_in keeps where the call before raised
CallReordered ==
    /\ pc \in {"done", "raised"}
    /\ \E order \in Orders(Len(scanned)) :
         \E st \in {ExtractInOrder(scanned, order, global_db)} :
             /\ sessions' = st.sessions
             /\ comp_meta' = st.comp_meta
             /\ comp2ws' = st.comp2ws
             /\ ws_proj' = st.ws_proj
             /\ IF st.raised_in # Missing \/ (SortRaises(BuildList(sessions)))'
                THEN pc' = "raised_reordered" /\ out' = <<>>
                ELSE pc' = "done_reordered" /\ out' = (Sorted(BuildList(sessions)))'
             /\ \E r \in Connections(open, max_open,
                                     CallsOf(scanned,
                                             IF st.raised_in # Missing THEN NoDb
                                             ELSE global_db, "reordered:")) :
                  open' = r.open /\ max_open' = r.max_open
    /\ first_out' = out
    /\ UNCHANGED <<system, scanned, global_db, raised_in, formatted, resolved, md5>>

OrderSpec == OrderInit /\ [][CallReordered]_vars

(***************************************************************************)
(* What the databases scanned in this run hold, for stating the claims.    *)
(***************************************************************************)
AllIds ==
    SessionIds \cup {"unknown", NoneKey}
    \cup {ai_service_composer_id(WsPath(i)) : i \in 1..(MaxWs + 1)}

RECURSIVE MessagesOf(_, _)
MessagesOf(ys, cid) ==
    IF ys = <<>> THEN <<>>
    ELSE (IF Head(ys).cid = cid THEN <<Message(Head(ys).role, Head(ys).text)>>
          ELSE <<>>) \o MessagesOf(Tail(ys), cid)

\* the messages the workspace databases yield for cid, in scan order
RECURSIVE WorkspaceMessages(_, _)
WorkspaceMessages(dbs, cid) ==
    IF dbs = <<>> THEN <<>>
    ELSE MessagesOf(iter_chat_from_item_table(Head(dbs)).yields, cid)
         \o WorkspaceMessages(Tail(dbs), cid)

\* the messages the bubble rows of the global database yield for cid
BubbleMessages(cid) == MessagesOf(iter_bubbles_from_disk_kv(global_db).yields, cid)

MessagesIn(ss, cid) ==
    IF HasSession(ss, cid) THEN ss[SessionIndex(ss, cid)].messages ELSE <<>>

\* the messages of the conversations of the global composer documents of cid
RECURSIVE ConversationMessagesOf(_, _)
ConversationMessagesOf(rows, cid) ==
    IF rows = <<>> THEN <<>>
    ELSE (IF Head(rows).cid = cid /\ Head(rows).json = "dict"
          THEN MessagesIn(ConversationLoop(<<>>, cid, Head(rows).conversation), cid)
          ELSE <<>>) \o ConversationMessagesOf(Tail(rows), cid)

\* the messages of the chat tabs of the global database for cid
GlobalTabMessages(cid) ==
    MessagesIn(GlobalTabsLoop([sessions |-> <<>>, comp_meta |-> EmptyMap,
                               comp2ws |-> EmptyMap], global_db.tabs).sessions, cid)

\* every message extracted for cid, in discovery order
ExtractedMessages(cid) ==
    WorkspaceMessages(scanned, cid) \o BubbleMessages(cid)
    \o ConversationMessagesOf(global_db.composerData, cid) \o GlobalTabMessages(cid)

OutIndexes(cid) == {i \in DOMAIN out : out[i].session.composerId = cid}

\* the ids that received metadata from a workspace database
WorkspaceMetaIds ==
    UNION {DOMAIN workspace_info(scanned[k]).comp_meta
           \cup {iter_chat_from_item_table(scanned[k]).yields[n].cid :
                   n \in DOMAIN iter_chat_from_item_table(scanned[k]).yields} :
           k \in DOMAIN scanned}

\* the ids of the rows of the global database
GlobalRowIds ==
    {global_db.bubbles[k].cid : k \in DOMAIN global_db.bubbles}
    \cup {global_db.composerData[k].cid : k \in DOMAIN global_db.composerData}
    \cup {global_db.tabs[k].tabId : k \in DOMAIN global_db.tabs}

\* the titles the composer documents of the workspaces give to cid
ComposerTitles(cid) ==
    UNION {{scanned[k].composers[n].name : n \in
              {m \in DOMAIN scanned[k].composers :
                 /\ scanned[k].composers[m].composerId = cid
                 /\ scanned[k].composers[m].name # Missing}} :
           k \in DOMAIN scanned}

\* a composer document of a workspace holds cid without a name
HasUntitledComposer(cid) ==
    \E k \in DOMAIN scanned : \E n \in DOMAIN scanned[k].composers :
        /\ scanned[k].composers[n].composerId = cid
        /\ scanned[k].composers[n].name = Missing

\* the path of the first database, in scan order, with messages for cid
FirstContributor(cid) ==
    LET ws == {k \in DOMAIN scanned :
                 MessagesOf(iter_chat_from_item_table(scanned[k]).yields, cid) # <<>>}
    IN  IF ws # {} THEN scanned[Min(ws)].path ELSE global_db.path

(***************************************************************************)
(* The claims.                                                             *)
(***************************************************************************)

\* C1: a session id with messages from a workspace database and from the
\* bubbles of the global database comes out as exactly one session, whose
\* messages are the workspace messages followed by the bubble messages (and
\* then by what the rest of the global database holds for it), each message
\* extracted for the id once.
C1_MergedInDiscoveryOrder ==
    pc = "done" =>
        \A X \in AllIds :
            (WorkspaceMessages(scanned, X) # <<>> /\ BubbleMessages(X) # <<>>) =>
                /\ Cardinality(OutIndexes(X)) = 1
                /\ \A i \in OutIndexes(X) :
                     /\ out[i].messages = ExtractedMessages(X)
                     /\ SubSeq(out[i].messages, 1,
                               Len(WorkspaceMessages(scanned, X))
                               + Len(BubbleMessages(X)))
                        = WorkspaceMessages(scanned, X) \o BubbleMessages(X)

\* the scenario of the specification: composer c1 "Demo" with message hi in
\* a workspace, bubble "hello again" of c1 in the global database
C1_Witness ==
    /\ pc = "done"
    /\ WorkspaceMessages(scanned, "c1") = <<Message("user", "hi")>>
    /\ BubbleMessages("c1") = <<Message("user", "hello again")>>
    /\ Len(out) = 1
    /\ out[1].session.composerId = "c1"
    /\ out[1].session.title = "Demo"
    /\ out[1].messages = <<Message("user", "hi"), Message("user", "hello again")>>

\* C2: the list returned holds each session id at most once.
C2_UniqueSessionIds ==
    pc = "done" =>
        \A i, k \in DOMAIN out :
            out[i].session.composerId = out[k].session.composerId => i = k

\* an id with messages from two workspace databases is in the list returned
C2_Witness ==
    /\ pc = "done"
    /\ \E X \in AllIds :
         /\ OutIndexes(X) # {}
         /\ Len(scanned) = 2
         /\ MessagesOf(iter_chat_from_item_table(scanned[1]).yields, X) # <<>>
         /\ MessagesOf(iter_chat_from_item_table(scanned[2]).yields, X) # <<>>

\* C3 (as claimed): once a session id has a title, createdAt and
\* lastUpdatedAt, no later step changes them.
C3_FirstWriterWins ==
    [][\A cid \in DOMAIN comp_meta :
         cid \in DOMAIN comp_meta' /\ comp_meta'[cid] = comp_meta[cid]]_vars

\* C4 (as claimed): the title of a session to which the composer documents
\* of the workspaces give a title is that title, whatever placeholder
\* another source makes for the id.
C4_ComposerTitleWins ==
    pc = "done" =>
        \A i \in DOMAIN out :
            (/\ ComposerTitles(out[i].session.composerId) # {}
             /\ ~HasUntitledComposer(out[i].session.composerId))
            => out[i].session.title \in ComposerTitles(out[i].session.composerId)

\* C5: no workspace is scanned once the global database is located, the
\* steps over the global database leave the metadata and the workspace of
\* every id with workspace metadata as they are, and no such id is
\* attached to "(global)".
C5_GlobalKeepsWorkspaceMetadata ==
    [][/\ pc \notin {"start", "workspaces"} =>
            /\ scanned' = scanned
            /\ ws_proj' = ws_proj
            /\ pc' # "workspaces"
            /\ \A cid \in WorkspaceMetaIds :
                 /\ cid \in DOMAIN comp_meta' /\ comp_meta'[cid] = comp_meta[cid]
                 /\ cid \in DOMAIN comp2ws' /\ comp2ws'[cid] = comp2ws[cid]
       /\ \A cid \in DOMAIN comp2ws' :
            comp2ws'[cid] = "(global)" => cid \notin WorkspaceMetaIds]_vars

\* the global database has been merged and holds a row for an id with
\* workspace metadata
C5_Witness ==
    /\ pc = "done"
    /\ WorkspaceMetaIds \cap GlobalRowIds # {}

\* C6 (as claimed): every session returned carries the path of the first
\* database that contributed messages to it.
C6_SourcePathOfFirstContributor ==
    pc = "done" =>
        \A i \in DOMAIN out :
            /\ out[i].db_path # Missing
            /\ out[i].db_path = FirstContributor(out[i].session.composerId)

\* C7: every session returned has a message with non-empty content, and an
\* id for which no message was extracted is not returned.
C7_NoEmptySessions ==
    pc = "done" =>
        /\ \A i \in DOMAIN out :
             /\ out[i].messages # <<>>
             /\ \A n \in DOMAIN out[i].messages : Truthy(out[i].messages[n].content)
        /\ \A X \in AllIds : ExtractedMessages(X) = <<>> => OutIndexes(X) = {}

\* an id known by its metadata, and one with a session entry, without messages
C7_Witness ==
    /\ pc = "done"
    /\ out # <<>>
    /\ \E X \in DOMAIN comp_meta : ExtractedMessages(X) = <<>>
    /\ \E k \in DOMAIN sessions : sessions[k].messages = <<>>

\* C8 (as claimed): sorted by descending lastUpdatedAt, a missing one last:
\* no session without a lastUpdatedAt precedes one that has it, and of two
\* sessions with a lastUpdatedAt the one with the greater comes first.
C8_MissingIsMinimum ==
    pc = "done" =>
        \A i, k \in DOMAIN out :
            i < k =>
                /\ ~(/\ out[i].session.lastUpdatedAt = NoneNum
                     /\ out[k].session.lastUpdatedAt # NoneNum)
                /\ (/\ out[i].session.lastUpdatedAt # NoneNum
                    /\ out[k].session.lastUpdatedAt # NoneNum)
                   => out[i].session.lastUpdatedAt >= out[k].session.lastUpdatedAt

\* C9 (as claimed): no schema extractor raises on a malformed row.
C9_NoExtractorRaises ==
    raised_in \notin {"iter_bubbles_from_disk_kv", "iter_chat_from_item_table",
                      "iter_composer_data"}

\* C10 (as claimed): extract_chats raises only when the storage root cannot
\* be located, before any database is scanned.
C10_RaisesOnlyWithoutRoot ==
    pc = "raised" => (raised_in = "cursor_root" /\ scanned = <<>>)

\* the workspace databases of dbs that can be read
Readable(dbs) == SelectSeq(dbs, LAMBDA db : db.status = "ok")

\* every message extracted for cid from the databases that can be read
ReadableMessages(cid) ==
    WorkspaceMessages(Readable(scanned), cid)
    \o (IF global_db.status = "ok"
        THEN BubbleMessages(cid)
             \o ConversationMessagesOf(global_db.composerData, cid)
             \o GlobalTabMessages(cid)
        ELSE <<>>)

\* C11 (as claimed): a database that cannot be opened or read, or lacks a
\* table, never makes extract_chats raise, and the sessions returned hold
\* what the other databases contribute, nothing of the failing one.
C11_DatabaseFailureNotRaised ==
    /\ pc = "raised" =>
         /\ global_db.status = "ok"
         /\ (scanned # <<>> /\ global_db = NoDb) => scanned[Len(scanned)].status = "ok"
    /\ pc = "done" =>
         \A i \in DOMAIN out :
            /\ out[i].messages = ReadableMessages(out[i].session.composerId)
            /\ \A k \in DOMAIN scanned :
                 scanned[k].status # "ok" =>
                    /\ out[i].db_path # scanned[k].path
                    /\ out[i].workspace_id # WsId(k)

C13_ProjectNameNeverUsername ==
    /\ \A i \in DOMAIN out : out[i].project.name # current_username
    /\ \A i \in DOMAIN formatted : formatted[i].project.name # current_username

\* the last segment of a home directory is the name of the account
IsHomeDirectory(root_path) ==
    root_path # <<>> /\ root_path[Len(root_path)] = current_username

\* C14 (as claimed): for a path that is the user's home directory, whatever
\* its parent directories, extract_project_name_from_path returns
\* "Home Directory".
C14_HomeDirectoryLabel ==
    (pc = "path_done" /\ IsHomeDirectory(resolved.root_path))
        => resolved.project_name = "Home Directory"

\* the non-blank texts of the entries of the generation log of a database
RECURSIVE GenerationTexts(_)
GenerationTexts(rows) ==
    IF rows = <<>> THEN <<>>
    ELSE (IF Head(rows).json = "list"
          THEN SelectSeq([k \in DOMAIN Head(rows).items |->
                            Head(rows).items[k].textDescription],
                         LAMBDA t : IsStr(t) /\ Strip(t) # "")
          ELSE <<>>)
         \o GenerationTexts(Tail(rows))

\* C15: in what extract_chats returns, every message of the session of the
\* prompt and generation logs of a workspace has role user, and every entry
\* of the generation log with a non-blank textDescription is one of them.
C15_GenerationsAreUser ==
    pc = "done" =>
      \A k \in DOMAIN scanned :
        LET cid   == ai_service_composer_id(scanned[k].path)
            texts == GenerationTexts(scanned[k].generations)
        IN  /\ \A i \in OutIndexes(cid) : \A n \in DOMAIN out[i].messages :
                  out[i].messages[n].role = "user"
            /\ \A t \in DOMAIN texts : \E i \in OutIndexes(cid) :
                  \E n \in DOMAIN out[i].messages :
                    out[i].messages[n] = Message("user", Strip(texts[t]))

\* a returned session holds a message of the generation log
C15_Witness ==
    /\ pc = "done"
    /\ \E k \in DOMAIN scanned :
         /\ GenerationTexts(scanned[k].generations) # <<>>
         /\ OutIndexes(ai_service_composer_id(scanned[k].path)) # {}

\* C16 (as claimed): every message of every session extract_chats returns
\* has role user or assistant and a content that is a non-empty string.
C16_RoleAndContent ==
    pc = "done" =>
      \A i \in DOMAIN out : \A n \in DOMAIN out[i].messages :
        /\ out[i].messages[n].role \in {"user", "assistant"}
        /\ IsStr(out[i].messages[n].content)
        /\ out[i].messages[n].content # ""

\* the messages the global database holds for a session id
GlobalMessages(cid) ==
    IF global_db.status # "ok" THEN <<>>
    ELSE BubbleMessages(cid)
         \o ConversationMessagesOf(global_db.composerData, cid)
         \o GlobalTabMessages(cid)

\* C17 (as claimed): every returned session that received messages from the
\* global database has workspace_id "(global)" and the unknown project.
C17_GlobalSessionsAttachToGlobal ==
    pc = "done" =>
      \A i \in DOMAIN out :
        GlobalMessages(out[i].session.composerId) # <<>>
          => /\ out[i].workspace_id = "(global)"
             /\ out[i].project = UnknownProject

C19_ConnectionsClosed == pc \in {"done", "raised"} => open = {}

\* C20 (as claimed): at every point of a run of extract_chats at most one
\* database connection is open.
C20_OneConnectionAtATime == max_open <= 1

\* the root the history of a database yields: the parent directory of the
\* common prefix of its file paths, <<>> when there is none
HistoryRoot(db) ==
    LET paths  == HistoryPaths(db.history).yields
        prefix == commonprefix(paths)
    IN  IF paths = <<>> \/ LastSeparator(prefix) = 0 THEN <<>>
        ELSE <<"/">> \o LStrip(SubSeq(prefix, 1, LastSeparator(prefix) - 1))

\* the root debug.selectedroot yields, <<>> when there is none
SelectedRoot(db) ==
    IF IsFileUri(db.selectedroot) /\ Tail(db.selectedroot) # <<>>
    THEN <<"/">> \o RStrip(LStrip(Tail(db.selectedroot))) ELSE <<>>

\* C21 (as claimed): the root of a workspace is the root its history yields,
\* whether or not debug.selectedroot is present; it is the selected root only
\* when the history yields none; and the project is the (unknown) pair when
\* neither yields one.
C21_RootPrecedence ==
    \A k \in DOMAIN scanned :
      (scanned[k].status = "ok" /\ WsId(k) \in DOMAIN ws_proj) =>
        IF HistoryRoot(scanned[k]) # <<>>
        THEN ws_proj[WsId(k)].rootPath = HistoryRoot(scanned[k])
        ELSE IF SelectedRoot(scanned[k]) # <<>>
        THEN ws_proj[WsId(k)].rootPath = SelectedRoot(scanned[k])
        ELSE ws_proj[WsId(k)] = UnknownProject

\* the names that are generic placeholders
GenericNames == {"Home Directory", "(unknown)"}

\* the final path segment of the first URI of the repository list of a
\* workspace that has the git file pattern, "" when there is none
FirstRepositoryName(workspace_id) ==
    LET dbs   == {k \in DOMAIN scanned : WsId(k) = workspace_id /\ scanned[k].status = "ok"}
        repos == scanned[CHOOSE k \in dbs : TRUE].repos
        git   == {n \in DOMAIN repos : Head(repos[n]) = "git:Git:file:///"}
        first == repos[Min(git)]
    IN  IF dbs = {} THEN ""
        ELSE IF git = {} THEN ""
        ELSE first[Len(first)]

\* C22: in the records get_chats returns, the project name of a session is
\* the one the path signals gave, except when that name is a generic
\* placeholder and the workspace of the session, which is neither "(global)"
\* nor "(unknown)", records a git repository: then it is the final path
\* segment of the first such repository.
C22_RepositoryIsLastResort ==
    pc = "formatted" =>
      \A i \in DOMAIN out :
        out[i].session.createdAt # Huge =>
          LET path_name == ImprovedName(out[i].project)
              ws_id     == out[i].workspace_id
          IN  formatted[i].project.name =
                IF /\ path_name \in GenericNames
                   /\ ws_id \notin {"(global)", "(unknown)"}
                   /\ FirstRepositoryName(ws_id) # ""
                THEN FirstRepositoryName(ws_id)
                ELSE path_name

\* a repository named one session, and another session of a workspace with
\* repositories kept the name of its path
C22_Witness ==
    /\ pc = "formatted"
    /\ \E i \in DOMAIN out :
         /\ out[i].project.name \in GenericNames
         /\ formatted[i].project.name = "repo"

\* some returned session holds the message
Returned(msg) ==
    \E i \in DOMAIN out : \E n \in DOMAIN out[i].messages : out[i].messages[n] = msg

\* C23 (as claimed): every schema shape present in a scanned database,
\* workspace or global, contributes its messages to the returned sessions:
\* also the bubble records of a workspace database and the prompt log of
\* the global database.
C23_SameExtractorsEverywhere ==
    pc = "done" =>
      /\ \A cid \in AllIds : \A n \in DOMAIN ExtractedMessages(cid) :
           Returned(ExtractedMessages(cid)[n])
      /\ \A k \in DOMAIN scanned : \A n \in DOMAIN scanned[k].bubbles :
           Returned(Message("user", scanned[k].bubbles[n].text))
      /\ \A n \in DOMAIN global_db.prompts :
           Returned(Message("user", global_db.prompts[n].items[1].text))

\* the texts of the prompt log, then of the generation log, of a database
LogMessages(db) ==
    MessagesOf(Then(PromptsLoop(db.prompts, "log", db.path),
                    GenerationsLoop(db.generations, "log", db.path)).yields, "log")

\* C24 (as claimed): the prompt and generation logs of a database are one
\* session, prompts before generations in row order; its id is the same in
\* a second run; and the logs of two databases with different paths are in
\* different sessions.
C24_OneLogSessionPerPath ==
    /\ pc = "done_again" => out = first_out
    /\ pc \in {"done", "done_again"} =>
         \A k \in DOMAIN scanned :
           LogMessages(scanned[k]) # <<>> =>
             \E i \in DOMAIN out :
               /\ out[i].session.composerId = ai_service_composer_id(scanned[k].path)
               /\ out[i].messages = LogMessages(scanned[k])

\* the sessions a and b of the output have the same sort key: equal
\* lastUpdatedAt, or both without one
SameSortKey(a, b) ==
    /\ SortKey(a) # NaN
    /\ SortKey(a) = SortKey(b)

\* C25: the final sort is the only reordering: two sessions of the output
\* with the same sort key are in the order in which their ids entered the
\* sessions during the scan, and every session of the output has its
\* messages in the order in which the scan appended them.
C25_TiesKeepDiscoveryOrder ==
    pc = "done" =>
        /\ \A i, k \in DOMAIN out :
             i < k /\ SameSortKey(out[i], out[k])
               => SessionIndex(sessions, out[i].session.composerId)
                    < SessionIndex(sessions, out[k].session.composerId)
        /\ \A i \in DOMAIN out :
             out[i].messages = MessagesIn(sessions, out[i].session.composerId)

\* the ids of the sessions of a list that extract_chats returned
IdsOf(list) == {list[i].session.composerId : i \in DOMAIN list}

\* how many times each message is in a list of messages
MessageBag(messages) ==
    [m \in {messages[i] : i \in DOMAIN messages} |->
       Cardinality({i \in DOMAIN messages : messages[i] = m})]

\* C26: for the same workspace databases and the same global database,
\* extract_chats returns the same set of session ids, and for each id the
\* same messages counted with their repetitions, in whatever order the
\* workspace databases are enumerated: a call that enumerates them in
\* another order returns when the call before it returned, and then with
\* these ids and messages.
C26_SameSessionsInEveryOrder ==
    pc \in {"done_reordered", "raised_reordered"} =>
        /\ (pc = "done_reordered") = (raised_in = Missing)
        /\ pc = "done_reordered" =>
             /\ IdsOf(out) = IdsOf(first_out)
             /\ \A i \in DOMAIN out, k \in DOMAIN first_out :
                  out[i].session.composerId = first_out[k].session.composerId
                    => MessageBag(out[i].messages) = MessageBag(first_out[k].messages)

====
